---- MODULE Spec2Model ----
(***************************************************************************)
(* Model of Transcriber.py: batch transcription of the .opus files of      *)
(* audios/ into transcripciones/ by a multiprocessing.Pool of workers that *)
(* each load one Whisper model.                                            *)
(*                                                                         *)
(* File names are sequences of one-character strings, compared by code     *)
(* point as Python compares str.  A directory is the set of its entry      *)
(* names; transcripciones/ maps each entry name to the file's content.     *)
(***************************************************************************)
EXTENDS Integers, Sequences, FiniteSets, TLC

\* ------------------------------------------------------------------ bounds
MaxAudios == 3          \* entries of audios/ at the start
MaxPrevias == 1         \* files already in transcripciones/ at the start
MaxCorridas == 2        \* invocations of the script, one after the other
MaxFallosInit == 1      \* failed model loads per invocation
MaxLenError == 101      \* length of the longest str(e)
MaxCambios == 1         \* changes made to the directories from outside

\* --------------------------------------------------------- configuration
NUMERO_DE_TRABAJADORES_GPU == 2
LIMITE_ERROR == 100

\* Python values that may be None: the list discovery returns
None == [esNone |-> TRUE, lista |-> <<>>]
Lista(l) == [esNone |-> FALSE, lista |-> l]
\* modelo_global before whisper.load_model; a loaded model is named by the
\* pid that loaded it
SinModelo == 0
EXITO == "EXITO"
FALLO == "FALLO"

DotOpus == <<".", "o", "p", "u", "s">>
DotTxt == <<".", "t", "x", "t">>

\* ------------------------------------------------------------ str helpers
CodePoint(c) ==
    CASE c = "." -> 46
      [] c = "B" -> 66
      [] c = "a" -> 97
      [] c = "b" -> 98
      [] c = "o" -> 111
      [] c = "p" -> 112
      [] c = "s" -> 115
      [] c = "t" -> 116
      [] c = "u" -> 117
      [] c = "x" -> 120
      [] c = "z" -> 122

MinNat(a, b) == IF a < b THEN a ELSE b

\* Python's s < t on str: the first differing character decides, a proper
\* prefix is smaller.
StrLess(s, t) ==
    LET n == MinNat(Len(s), Len(t))
        difs == {i \in 1..n : s[i] # t[i]}
    IN  IF difs = {}
        THEN Len(s) < Len(t)
        ELSE LET k == CHOOSE i \in difs : \A j \in difs : i <= j
             IN  CodePoint(s[k]) < CodePoint(t[k])

\* str.endswith
EndsWith(s, suf) ==
    /\ Len(s) >= Len(suf)
    /\ SubSeq(s, Len(s) - Len(suf) + 1, Len(s)) = suf

\* str.rfind, 1-based; 0 when absent
RFind(p, c) ==
    LET idx == {i \in 1..Len(p) : p[i] = c}
    IN  IF idx = {} THEN 0 ELSE CHOOSE i \in idx : \A j \in idx : j <= i

\* os.path.splitext on a name without separators: the extension starts at
\* the last dot, unless only dots precede it.
Splitext(p) ==
    LET dotIndex == RFind(p, ".")
    IN  IF dotIndex > 0 /\ \E i \in 1..(dotIndex - 1) : p[i] # "."
        THEN <<SubSeq(p, 1, dotIndex - 1), SubSeq(p, dotIndex, Len(p))>>
        ELSE <<p, <<>>>>

\* sorted(): ascending by StrLess
RECURSIVE sorted(_)
sorted(S) ==
    IF S = {}
    THEN <<>>
    ELSE LET m == CHOOSE x \in S : \A y \in S \ {x} : StrLess(x, y)
         IN  <<m>> \o sorted(S \ {m})

Reverse(s) == [i \in 1..Len(s) |-> s[Len(s) + 1 - i]]

\* the directory order os.listdir happens to give when nobody sorts it
SinOrdenar(S) == Reverse(sorted(S))

\* sorted(os.listdir(CARPETA_AUDIOS))
ListaOrdenada(S) == sorted(S)

\* os.path.join(CARPETA_AUDIOS, nombre) and os.path.basename of it
RutaAudio(nombre) == [carpeta |-> "audios", nombre |-> nombre]
Basename(ruta) == ruta.nombre

\* the file name of ruta_salida_txt inside CARPETA_TRANSCRIPCIONES
RutaSalidaTxt(nombre_archivo) == Splitext(nombre_archivo)[1] \o DotTxt

\* nombre_archivo.endswith(".opus")
EsAudio(nombre_archivo) == EndsWith(nombre_archivo, DotOpus)

\* ----------------------------------------------------------- input sets
\* entries audios/ may hold: "B.opus", ".opus", ".opus.opus" and "aopus"
NombresAudios ==
    { <<"B">> \o DotOpus,
      DotOpus,
      DotOpus \o DotOpus,
      <<"a", "o", "p", "u", "s">> }

\* files transcripciones/ may hold at the start: "B.txt", ".opus.txt" and
\* "z.txt"
NombresPrevias ==
    { <<"B">> \o DotTxt,
      DotOpus \o DotTxt,
      <<"z">> \o DotTxt }

\* a file's content: empty, as open(..., "w") leaves it, or something an
\* earlier run or somebody else wrote
Vacio == <<>>
Viejo == <<"viejo">>

\* resultado["text"] of the model for one audio
Texto(ruta_audio) == <<"texto", Basename(ruta_audio)>>

\* str(e): n characters.  What the message says is the library's business;
\* the three failures are told apart by how long their messages are.
MensajeError(n) == [i \in 1..n |-> "e"]
ErrorTranscribir == MensajeError(MaxLenError)
ErrorAbrir == MensajeError(1)
ErrorEscribir == MensajeError(LIMITE_ERROR)

\* error_msg[:100]
Truncar(s) == SubSeq(s, 1, MinNat(Len(s), LIMITE_ERROR))


\* ------------------------------------------------------------------ state
VARIABLES
    corrida,              \* which invocation of the script this is
    pc,                   \* position of main()
    audiosExiste,         \* os.path.isdir(CARPETA_AUDIOS)
    audios,               \* os.listdir(CARPETA_AUDIOS), as a set
    transExiste,          \* os.path.exists(CARPETA_TRANSCRIPCIONES)
    trans,                \* files of transcripciones/: name -> content
    archivos_a_procesar,  \* None or Lista(l): what discovery returned
    proc,                 \* the pool's processes: pid -> [st, tarea]
    modelo_global,        \* memory cell -> SinModelo or the model loaded
    cargas,               \* pid -> number of whisper.load_model calls made
    fallosInit,           \* failed initializers of this invocation
    tareas,               \* the pool's task queue: indices still to hand out
    despachos,            \* item index -> times it was handed to a worker
    destino,              \* item index -> what happened while processing it
    salida,               \* the pool's result queue, in completion order
    resultados,           \* main's list resultados
    progreso,             \* progress_bar.n
    consola,              \* lines printed by main
    reporte,              \* the lists exitos and fallos of the final report
    anterior,             \* how the previous invocation ended
    transInicio,          \* transcripciones/ when this invocation started
    cuda,                 \* torch.cuda.is_available() for this invocation
    cambios               \* changes made to the directories from outside

vars == <<corrida, pc, audiosExiste, audios, transExiste, trans,
          archivos_a_procesar, proc, modelo_global, cargas, fallosInit,
          tareas, despachos, destino, salida, resultados, progreso, consola,
          reporte, anterior, transInicio, cuda, cambios>>

entorno == <<cuda, cambios>>
fsVars == <<audiosExiste, audios, transExiste, trans>>
poolVars == <<proc, modelo_global, cargas, fallosInit, tareas, despachos,
              destino, salida>>
mainVars == <<archivos_a_procesar, resultados, progreso, consola, reporte>>

PIDs == 1..(NUMERO_DE_TRABAJADORES_GPU + MaxFallosInit)

Ocupado == {"transcribiendo", "escribiendo"}
Vivo == {"arrancando", "libre"} \cup Ocupado
Terminales == {"sin_cuda", "sin_carpeta", "nada_pendiente", "completado",
               "excepcion"}

NoNacido == [st |-> "no_nacido", tarea |-> 0]
SinAnterior == [fin |-> "ninguna", exitosos |-> {}, fallidos |-> {}]

SinReporte == [hecho |-> FALSE, exitos |-> <<>>, fallos |-> <<>>]

\* len(archivos_a_procesar)
NumItems == Len(archivos_a_procesar.lista)

\* the same global seen by every worker, as threads would see it
CeldaCompartida(p) == 1

\* the module-level "modelo_global = None" lives in each process's own
\* memory (start method spawn): one cell per pid
Celda(p) == p

\* a discovery that forgets to look for the output
NuncaExiste(nombre_salida) == FALSE

\* os.path.exists(ruta_salida_txt)
Existe(nombre_salida) == transExiste /\ nombre_salida \in DOMAIN trans

Init ==
    /\ corrida = 1
    /\ pc = "inicio"
    /\ audiosExiste \in BOOLEAN
    /\ audios \in {S \in SUBSET NombresAudios :
                     /\ Cardinality(S) <= MaxAudios
                     /\ (~audiosExiste => S = {})}
    /\ transExiste \in BOOLEAN
    /\ \E D \in {S \in SUBSET NombresPrevias :
                   /\ Cardinality(S) <= MaxPrevias
                   /\ (~transExiste => S = {})} :
          trans \in [D -> {Vacio, Viejo}]
    /\ archivos_a_procesar = None
    /\ proc = [p \in PIDs |-> NoNacido]
    /\ modelo_global = [c \in PIDs |-> SinModelo]
    /\ cargas = [p \in PIDs |-> 0]
    /\ fallosInit = 0
    /\ tareas = <<>>
    /\ despachos = <<>>
    /\ destino = <<>>
    /\ salida = <<>>
    /\ resultados = <<>>
    /\ progreso = 0
    /\ consola = <<>>
    /\ reporte = SinReporte
    /\ anterior = SinAnterior
    /\ transInicio = trans
    /\ cuda \in BOOLEAN
    /\ cambios = 0

\* ------------------------------------------------------------------- main

\* the check of line 81 with the return of line 83 left out
ComprobarCudaSinRetorno ==
    /\ pc = "inicio"
    /\ pc' = "crear_carpetas"
    /\ consola' = IF cuda
                  THEN consola
                  ELSE Append(consola, [tipo |-> "sin_cuda"])
    /\ UNCHANGED <<corrida, fsVars, archivos_a_procesar, poolVars, resultados,
                   progreso, reporte, anterior, transInicio, entorno>>

\* line 81-83: torch.cuda.is_available()
ComprobarCuda ==
    /\ pc = "inicio"
    /\ IF cuda
       THEN /\ pc' = "crear_carpetas"
            /\ consola' = consola
       ELSE /\ pc' = "sin_cuda"
            /\ consola' = Append(consola, [tipo |-> "sin_cuda"])
    /\ UNCHANGED <<corrida, fsVars, archivos_a_procesar, poolVars, resultados,
                   progreso, reporte, anterior, transInicio, entorno>>

\* crear_carpetas_necesarias, called at line 85
crear_carpetas_necesarias ==
    /\ pc = "crear_carpetas"
    /\ transExiste' = TRUE
    /\ pc' = "descubrir"
    /\ UNCHANGED <<corrida, audiosExiste, audios, trans, mainVars, poolVars,
                   anterior, transInicio, entorno>>

\* the loop of lines 72-76 over an already ordered listing
RECURSIVE Pendientes(_)
Pendientes(lista) ==
    IF lista = <<>>
    THEN <<>>
    ELSE LET nombre_archivo == Head(lista)
             resto == Pendientes(Tail(lista))
         IN  IF EsAudio(nombre_archivo)
                /\ ~Existe(RutaSalidaTxt(nombre_archivo))
             THEN <<RutaAudio(nombre_archivo)>> \o resto
             ELSE resto

\* what a discovery without the isdir test answers for a missing directory
SinComprobarCarpeta == Lista(Pendientes(ListaOrdenada(audios)))

\* encontrar_archivos_pendientes: None when audios/ is missing
encontrar_archivos_pendientes ==
    IF ~audiosExiste THEN None ELSE Lista(Pendientes(ListaOrdenada(audios)))

\* line 86
Descubrir ==
    /\ pc = "descubrir"
    /\ archivos_a_procesar' = encontrar_archivos_pendientes
    /\ pc' = "decidir"
    /\ UNCHANGED <<corrida, fsVars, poolVars, resultados, progreso, consola,
                   reporte, anterior, transInicio, entorno>>

\* lines 88-96
Decidir ==
    /\ pc = "decidir"
    /\ IF archivos_a_procesar = None
       THEN /\ pc' = "sin_carpeta"
            /\ consola' = Append(consola, [tipo |-> "sin_carpeta"])
       ELSE IF archivos_a_procesar.lista = <<>>
       THEN /\ pc' = "nada_pendiente"
            /\ consola' = Append(consola, [tipo |-> "nada_pendiente"])
       ELSE /\ pc' = "crear_pool"
            /\ consola' = consola
    /\ UNCHANGED <<corrida, fsVars, archivos_a_procesar, poolVars, resultados,
                   progreso, reporte, anterior, transInicio, entorno>>


\* ------------------------------------------------------------------- pool

\* a task list that loses its last item
TareasMenosUna(lista) == [i \in 1..(Len(lista) - 1) |-> i]

\* a task list made by looking again for the outputs when the tasks are
\* submitted
TareasSinSalida(lista) ==
    SelectSeq([i \in 1..Len(lista) |-> i],
              LAMBDA i : ~Existe(RutaSalidaTxt(Basename(lista[i]))))

\* the tasks imap_unordered(procesar_archivo, archivos_a_procesar) submits:
\* one per list position, in list order
TareasEnviadas(lista) == [i \in 1..Len(lista) |-> i]

\* line 99: Pool(processes=..., initializer=inicializar_trabajador) starts
\* its processes and returns without waiting for their initializers
CrearPool ==
    /\ pc = "crear_pool"
    /\ proc' = [p \in PIDs |->
                  IF p <= NUMERO_DE_TRABAJADORES_GPU
                  THEN [st |-> "arrancando", tarea |-> 0]
                  ELSE NoNacido]
    /\ pc' = "imap"
    /\ UNCHANGED <<corrida, fsVars, mainVars, modelo_global, cargas,
                   fallosInit, tareas, despachos, destino, salida, anterior,
                   transInicio, entorno>>

\* line 104, the call: every task goes into the pool's task queue
Imap ==
    /\ pc = "imap"
    /\ tareas' = TareasEnviadas(archivos_a_procesar.lista)
    /\ despachos' = [i \in 1..NumItems |-> 0]
    /\ destino' = [i \in 1..NumItems |->
                     [que |-> "pendiente", error |-> <<>>]]
    /\ pc' = "bucle"
    /\ UNCHANGED <<corrida, fsVars, mainVars, proc, modelo_global, cargas,
                   fallosInit, salida, anterior, transInicio, entorno>>

PoolActivo == pc \in {"imap", "bucle"}

\* inicializar_trabajador, whisper.load_model returns
InicializarOk(p) ==
    /\ PoolActivo
    /\ proc[p].st = "arrancando"
    /\ modelo_global' = [modelo_global EXCEPT ![Celda(p)] = p]
    /\ cargas' = [cargas EXCEPT ![p] = @ + 1]
    /\ proc' = [proc EXCEPT ![p].st = "libre"]
    /\ UNCHANGED <<corrida, pc, fsVars, mainVars, fallosInit, tareas,
                   despachos, destino, salida, anterior,
                   transInicio, entorno>>

\* inicializar_trabajador, whisper.load_model raises: the process exits
InicializarFalla(p) ==
    /\ PoolActivo
    /\ proc[p].st = "arrancando"
    /\ fallosInit < MaxFallosInit
    /\ cargas' = [cargas EXCEPT ![p] = @ + 1]
    /\ fallosInit' = fallosInit + 1
    /\ proc' = [proc EXCEPT ![p].st = "muerto"]
    /\ UNCHANGED <<corrida, pc, fsVars, mainVars, modelo_global, tareas,
                   despachos, destino, salida, anterior,
                   transInicio, entorno>>

\* the pool's worker handler joins an exited process and starts another one
\* with the same initializer
Repoblar(p) ==
    /\ PoolActivo
    /\ proc[p].st = "muerto"
    /\ \E q \in PIDs :
          /\ proc[q].st = "no_nacido"
          /\ \A r \in PIDs : proc[r].st = "no_nacido" => q <= r
          /\ proc' = [proc EXCEPT ![p].st = "recogido",
                                  ![q].st = "arrancando"]
    /\ UNCHANGED <<corrida, pc, fsVars, mainVars, modelo_global, cargas,
                   fallosInit, tareas, despachos, destino, salida, anterior,
                   transInicio, entorno>>

\* a worker's loop gets the next task from the task queue
Tomar(p) ==
    /\ proc[p].st = "libre"
    /\ tareas # <<>>
    /\ proc' = [proc EXCEPT ![p] = [st |-> "transcribiendo",
                                    tarea |-> Head(tareas)]]
    /\ tareas' = Tail(tareas)
    /\ despachos' = [despachos EXCEPT ![Head(tareas)] = @ + 1]
    /\ UNCHANGED <<corrida, pc, fsVars, mainVars, modelo_global, cargas,
                   fallosInit, destino, salida, anterior,
                   transInicio, entorno>>

\* an except clause that lets the exception out of procesar_archivo: the
\* pool hands it to the consumer of the results
PropagaExcepcion(nombre_archivo, e) == <<nombre_archivo, "EXCEPCION", e>>

\* line 63
ResultadoFallo(nombre_archivo, e) == <<nombre_archivo, FALLO, e>>

\* line 60
ResultadoExito(nombre_archivo) == <<nombre_archivo, EXITO, <<>>>>

ItemDe(p) == archivos_a_procesar.lista[proc[p].tarea]
\* line 53
NombreDe(p) == Basename(ItemDe(p))

\* procesar_archivo returns r: the worker puts it on the result queue and
\* goes back to its loop
Devolver(p, r, que, e) ==
    /\ salida' = Append(salida, [i |-> proc[p].tarea, obj |-> r])
    /\ destino' = [destino EXCEPT ![proc[p].tarea] =
                     [que |-> que, error |-> e]]
    /\ proc' = [proc EXCEPT ![p] = [st |-> "libre", tarea |-> 0]]

\* line 57 raises (corrupt audio, or no model in modelo_global): lines 61-63
TranscribirFalla(p) ==
    /\ proc[p].st = "transcribiendo"
    /\ Devolver(p, ResultadoFallo(NombreDe(p), ErrorTranscribir),
                "fallo_transcribir", ErrorTranscribir)
    /\ UNCHANGED <<corrida, pc, fsVars, mainVars, modelo_global, cargas,
                   fallosInit, tareas, despachos, anterior, transInicio,
                   entorno>>

\* line 57 returns and line 58, open(ruta_salida_txt, "w"), creates or
\* truncates the file
AbrirOk(p) ==
    /\ proc[p].st = "transcribiendo"
    /\ modelo_global[Celda(p)] # SinModelo
    /\ transExiste
    /\ trans' = [n \in DOMAIN trans \cup {RutaSalidaTxt(NombreDe(p))} |->
                   IF n = RutaSalidaTxt(NombreDe(p)) THEN Vacio ELSE trans[n]]
    /\ proc' = [proc EXCEPT ![p].st = "escribiendo"]
    /\ UNCHANGED <<corrida, pc, audiosExiste, audios, transExiste, mainVars,
                   modelo_global, cargas, fallosInit, tareas, despachos,
                   destino, salida, anterior,
                   transInicio, entorno>>

\* line 57 returns and line 58 raises: nothing is created, lines 61-63
AbrirFalla(p) ==
    /\ proc[p].st = "transcribiendo"
    /\ modelo_global[Celda(p)] # SinModelo
    /\ Devolver(p, ResultadoFallo(NombreDe(p), ErrorAbrir),
                "fallo_abrir", ErrorAbrir)
    /\ UNCHANGED <<corrida, pc, fsVars, mainVars, modelo_global, cargas,
                   fallosInit, tareas, despachos, anterior, transInicio,
                   entorno>>

Mezcla == <<"mezcla">>

\* what the file holds after this worker's write and close: its text, or,
\* when another writer filled the file since this worker truncated it, its
\* text over the other's (the longer text's tail survives)
Escrituras(p) ==
    IF trans[RutaSalidaTxt(NombreDe(p))] = Vacio
    THEN {Texto(ItemDe(p))}
    ELSE {Texto(ItemDe(p)), Mezcla}

\* lines 59-60, f.write and the close of the with block succeed
EscribirOk(p) ==
    /\ proc[p].st = "escribiendo"
    /\ \E contenido \in Escrituras(p) :
          trans' = [trans EXCEPT ![RutaSalidaTxt(NombreDe(p))] = contenido]
    /\ Devolver(p, ResultadoExito(NombreDe(p)), "exito", <<>>)
    /\ UNCHANGED <<corrida, pc, audiosExiste, audios, transExiste, mainVars,
                   modelo_global, cargas, fallosInit, tareas, despachos,
                   anterior, transInicio, entorno>>

\* line 59 raises (disk full): the file stays as it is, lines 61-63
EscribirFalla(p) ==
    /\ proc[p].st = "escribiendo"
    /\ Devolver(p, ResultadoFallo(NombreDe(p), ErrorEscribir),
                "fallo_escribir", ErrorEscribir)
    /\ UNCHANGED <<corrida, pc, fsVars, mainVars, modelo_global, cargas,
                   fallosInit, tareas, despachos, anterior, transInicio,
                   entorno>>

\* -------------------------------------------------------- main, the loop

\* imap: the iterator yields results in submission order, so the next one
\* is the result of item number recibidos + 1, if it is there
SiguienteEnOrden(cola, recibidos) ==
    LET pos == {k \in 1..Len(cola) : cola[k].i = recibidos + 1}
    IN  IF pos = {} THEN 0 ELSE CHOOSE k \in pos : \A j \in pos : k <= j

\* imap_unordered: the iterator yields the oldest result of the result
\* queue; 0 when the queue is empty
SiguienteResultado(cola, recibidos) == IF cola = <<>> THEN 0 ELSE 1

Quitar(cola, k) == SubSeq(cola, 1, k - 1) \o SubSeq(cola, k + 1, Len(cola))

\* pool.terminate() at the end of the with block of line 99
Terminar == [p \in PIDs |->
               IF proc[p].st \in Vivo
               THEN [st |-> "terminado", tarea |-> 0]
               ELSE proc[p]]

\* no truncation at all
SinTruncar(s) == s

\* resultado[2][:100] and error_msg[:100]
Recorte(s) == Truncar(s)

\* a test that takes every result for a failure
SiempreFallo(resultado) == TRUE

\* line 105: "FALLO" in resultado[1]; the status is "ÉXITO" or "FALLO"
HayFallo(resultado) == resultado[2] = FALLO

\* lines 104-108, one iteration of the for loop
Recibir ==
    /\ pc = "bucle"
    /\ SiguienteResultado(salida, Len(resultados)) # 0
    /\ LET k == SiguienteResultado(salida, Len(resultados))
           resultado == salida[k].obj
       IN  /\ salida' = Quitar(salida, k)
           /\ IF resultado[2] = "EXCEPCION"
              THEN \* next() raises in main: the with block ends the pool
                   /\ pc' = "excepcion"
                   /\ proc' = Terminar
                   /\ tareas' = <<>>
                   /\ UNCHANGED <<resultados, progreso, consola>>
              ELSE /\ consola' =
                        IF HayFallo(resultado)
                        THEN Append(consola,
                                    [tipo |-> "ERROR",
                                     archivo |-> resultado[1],
                                     causa |-> Recorte(resultado[3])])
                        ELSE consola
                   /\ resultados' = Append(resultados, resultado)
                   /\ progreso' = progreso + 1
                   /\ UNCHANGED <<pc, proc, tareas>>
    /\ UNCHANGED <<corrida, fsVars, archivos_a_procesar, reporte,
                   modelo_global, cargas, fallosInit, despachos, destino,
                   anterior, transInicio, entorno>>

\* the iterator is exhausted once it has yielded as many results as tasks
\* were submitted: the for loop and both with blocks end
SalirPool ==
    /\ pc = "bucle"
    /\ Len(resultados) = Len(TareasEnviadas(archivos_a_procesar.lista))
    /\ proc' = Terminar
    /\ pc' = "reporte"
    /\ UNCHANGED <<corrida, fsVars, mainVars, modelo_global, cargas,
                   fallosInit, tareas, despachos, destino, salida, anterior,
                   transInicio, entorno>>

\* every result counted as a success
TodoExito(r) == TRUE

\* line 111
EsExito(r) == r[2] = EXITO
\* line 112
EsFallo(r) == r[2] = FALLO

LineaFallo(r) == [tipo |-> "fallo", archivo |-> r[1], error |-> Recorte(r[3])]

\* lines 111-125
Reporte ==
    /\ pc = "reporte"
    /\ LET exitos == SelectSeq(resultados, EsExito)
           fallos == SelectSeq(resultados, EsFallo)
       IN  /\ reporte' = [hecho |-> TRUE, exitos |-> exitos,
                          fallos |-> fallos]
           /\ consola' = consola
                  \o <<[tipo |-> "resumen", exitos |-> Len(exitos),
                        fallos |-> Len(fallos)]>>
                  \o [k \in 1..Len(fallos) |-> LineaFallo(fallos[k])]
    /\ pc' = "completado"
    /\ UNCHANGED <<corrida, fsVars, archivos_a_procesar, resultados, progreso,
                   poolVars, anterior, transInicio, entorno>>

Nombres(rs) == {rs[k][1] : k \in 1..Len(rs)}

\* lines 127-130: the script is started again after it ended
Relanzar ==
    /\ pc \in Terminales
    /\ corrida < MaxCorridas
    /\ corrida' = corrida + 1
    /\ anterior' = [fin |-> pc,
                    exitosos |-> Nombres(SelectSeq(resultados, EsExito)),
                    fallidos |-> Nombres(SelectSeq(resultados, EsFallo))]
    /\ pc' = "inicio"
    /\ archivos_a_procesar' = None
    /\ proc' = [p \in PIDs |-> NoNacido]
    /\ modelo_global' = [c \in PIDs |-> SinModelo]
    /\ cargas' = [p \in PIDs |-> 0]
    /\ fallosInit' = 0
    /\ tareas' = <<>>
    /\ despachos' = <<>>
    /\ destino' = <<>>
    /\ salida' = <<>>
    /\ resultados' = <<>>
    /\ progreso' = 0
    /\ consola' = <<>>
    /\ reporte' = SinReporte
    /\ transInicio' = trans
    /\ cuda' \in BOOLEAN
    /\ UNCHANGED <<fsVars, cambios>>

Next ==
    \/ ComprobarCuda
    \/ crear_carpetas_necesarias
    \/ Descubrir
    \/ Decidir
    \/ CrearPool
    \/ Imap
    \/ \E p \in PIDs : InicializarOk(p)
    \/ \E p \in PIDs : InicializarFalla(p)
    \/ \E p \in PIDs : Repoblar(p)
    \/ \E p \in PIDs : Tomar(p)
    \/ \E p \in PIDs : TranscribirFalla(p)
    \/ \E p \in PIDs : AbrirOk(p)
    \/ \E p \in PIDs : AbrirFalla(p)
    \/ \E p \in PIDs : EscribirOk(p)
    \/ \E p \in PIDs : EscribirFalla(p)
    \/ Recibir
    \/ SalirPool
    \/ Reporte
    \/ Relanzar

Spec == Init /\ [][Next]_vars


\* ----------------------------------------------------------------- claims

ListaNombres == {Basename(archivos_a_procesar.lista[k]) : k \in 1..NumItems}

\* f is some stem followed by ".opus"
LlevaExtension(f) == \E n \in 0..Len(f) : f = SubSeq(f, 1, n) \o DotOpus

\* the outcomes produced so far for item i: still in the result queue, or
\* already in resultados
EnCola(i) == {k \in 1..Len(salida) : salida[k].i = i}
Recibidos(i) ==
    {k \in 1..Len(resultados) :
        resultados[k][1] = Basename(archivos_a_procesar.lista[i])}

Procesado(i) == destino[i].que # "pendiente"
Fallido(i) == destino[i].que \in {"fallo_transcribir", "fallo_abrir",
                                  "fallo_escribir"}

\* C1: right after discovery the list holds exactly the entries of audios/
\* that end in ".opus" and whose derived output (the name without its
\* extension, plus ".txt") is not in transcripciones/, whatever that output
\* holds, in strictly ascending order of file name.
C1_DescubreExactamente ==
    (pc = "decidir" /\ audiosExiste) =>
        LET l == archivos_a_procesar.lista
        IN  /\ ~archivos_a_procesar.esNone
            /\ ListaNombres =
                 {f \in audios : /\ LlevaExtension(f)
                                 /\ RutaSalidaTxt(f) \notin DOMAIN trans}
            /\ \A k \in 1..Len(l) : l[k] = RutaAudio(Basename(l[k]))
            /\ \A j, k \in 1..Len(l) :
                  j < k => StrLess(Basename(l[j]), Basename(l[k]))

\* two audios are listed in order while a third is left out because its
\* output exists and is empty
C1_Witness ==
    /\ pc = "decidir"
    /\ NumItems >= 2
    /\ \E f \in audios :
          /\ EsAudio(f)
          /\ RutaSalidaTxt(f) \in DOMAIN trans
          /\ trans[RutaSalidaTxt(f)] = Vacio

\* C2: once the pool run has returned, every discovered item was handed to
\* a worker exactly once and has exactly one outcome in resultados, so
\* len(resultados) = len(archivos_a_procesar).
C2_UnResultadoPorItem ==
    pc \in {"reporte", "completado"} =>
        /\ Len(resultados) = NumItems
        /\ \A i \in 1..NumItems :
              /\ despachos[i] = 1
              /\ Cardinality(Recibidos(i)) = 1

\* a run of two items, one failed and one transcribed, after a worker had
\* to be replaced
C2_Witness ==
    /\ pc = "completado"
    /\ NumItems >= 2
    /\ fallosInit > 0
    /\ \E j, k \in 1..Len(resultados) :
          resultados[j][2] = EXITO /\ resultados[k][2] = FALLO

\* C3, in every state: no exception reaches main; an item whose
\* transcription or write failed has exactly one outcome, a FALLO; an item
\* whose transcription and write succeeded has exactly one outcome, an EXITO.
C3_Estado ==
    /\ pc # "excepcion"
    /\ \A i \in DOMAIN destino :
          /\ Procesado(i) =>
                Cardinality(EnCola(i)) + Cardinality(Recibidos(i)) = 1
          /\ \A k \in EnCola(i) :
                salida[k].obj[2] = IF Fallido(i) THEN FALLO ELSE EXITO
          /\ \A k \in Recibidos(i) :
                resultados[k][2] = IF Fallido(i) THEN FALLO ELSE EXITO

\* C3, in every step: the worker that returns a FALLO is free again in the
\* next state, and the pool keeps running.
C3_Paso ==
    \A p \in PIDs :
        (/\ proc[p].st \in Ocupado
         /\ Len(salida') = Len(salida) + 1
         /\ salida'[Len(salida')].i = proc[p].tarea
         /\ salida'[Len(salida')].obj[2] # EXITO)
        => (proc'[p].st = "libre" /\ pc' = "bucle")

\* C3: a failure while transcribing or writing one item becomes exactly one
\* FALLO outcome, leaves its worker alive and the pool running, and takes
\* no EXITO away from the other items.
C3_FalloNoPropaga == []C3_Estado /\ [][C3_Paso]_vars

\* the only initialized worker failed on the first item and then
\* transcribed the second
C3_Witness ==
    /\ NumItems >= 2
    /\ DOMAIN destino # {}
    /\ Fallido(1)
    /\ destino[2].que = "exito"
    /\ Cardinality({p \in PIDs : cargas[p] > 0}) = 1

C5_FalloInitAborta ==
    fallosInit > 0 =>
        /\ \A i \in DOMAIN despachos : despachos[i] = 0
        /\ pc \notin {"reporte", "completado"}

\* C6: a worker that is processing an item has loaded its model, the model
\* it uses is the one it loaded itself, and no worker calls
\* whisper.load_model more than once.
C6_UnaCargaPorTrabajador ==
    \A p \in PIDs :
        /\ cargas[p] <= 1
        /\ proc[p].st \in Ocupado =>
              /\ cargas[p] = 1
              /\ modelo_global[Celda(p)] # SinModelo
              /\ modelo_global[Celda(p)] = p

\* both workers have loaded a model and one of them is on the second item
\* after the first was processed
C6_Witness ==
    /\ \E p, q \in PIDs :
          /\ p # q
          /\ proc[p].st \in Ocupado
          /\ proc[p].tarea = 2
          /\ cargas[q] = 1
          /\ proc[q].st = "libre"
    /\ Procesado(1)

\* C7: when audios/ does not exist the run ends at the not-found message:
\* no process was started, no model loaded, no task submitted, no report
\* printed, and transcripciones/ holds the files it held at the start.
C7_SinCarpetaAborta ==
    (/\ ~audiosExiste
     /\ pc \notin {"inicio", "crear_carpetas", "descubrir", "decidir",
                   "sin_cuda"})
    => /\ pc = "sin_carpeta"
       /\ archivos_a_procesar.esNone
       /\ consola = <<[tipo |-> "sin_carpeta"]>>
       /\ \A p \in PIDs : proc[p].st = "no_nacido" /\ cargas[p] = 0
       /\ tareas = <<>> /\ despachos = <<>> /\ salida = <<>>
       /\ resultados = <<>>
       /\ ~reporte.hecho
       /\ trans = transInicio

\* the run has stopped at the not-found message, transcripciones/ having
\* been created empty on the way
C7_Witness ==
    /\ pc = "sin_carpeta"
    /\ ~audiosExiste
    /\ transExiste
    /\ DOMAIN trans = {}

\* C8: while main is in its loop, if a finished outcome waits in the result
\* queue and an item submitted before it is still being processed, the
\* next loop iteration can run now.
C8_OrdenDeTerminacion ==
    (/\ pc = "bucle"
     /\ \E k \in 1..Len(salida) : \E p \in PIDs :
           proc[p].st \in Ocupado /\ proc[p].tarea < salida[k].i)
    => ENABLED Recibir

\* main has already received the outcome of the second item while the
\* first item is still being processed
C8_Witness ==
    /\ pc = "bucle"
    /\ NumItems >= 2
    /\ progreso = 1
    /\ Recibidos(2) # {}
    /\ \E p \in PIDs : proc[p].st \in Ocupado /\ proc[p].tarea = 1

\* C9 as claimed: an EXITO carries no detail and a FALLO carries at most
\* LIMITE_ERROR characters, in the result queue and in resultados.
C9_Original ==
    /\ \A k \in 1..Len(salida) :
          IF salida[k].obj[2] = EXITO
          THEN salida[k].obj[3] = <<>>
          ELSE Len(salida[k].obj[3]) <= LIMITE_ERROR
    /\ \A k \in 1..Len(resultados) :
          IF resultados[k][2] = EXITO
          THEN resultados[k][3] = <<>>
          ELSE Len(resultados[k][3]) <= LIMITE_ERROR

\* C9 amended: an EXITO carries no detail; a FALLO carries the whole str(e),
\* in the result queue and in resultados; what is cut to LIMITE_ERROR
\* characters is the text of the printed lines.
C9_DetalleCompletoLineaCortada ==
    /\ \A k \in 1..Len(salida) :
          salida[k].obj[3] = IF salida[k].obj[2] = EXITO
                             THEN <<>>
                             ELSE destino[salida[k].i].error
    /\ \A i \in DOMAIN destino : \A k \in Recibidos(i) :
          resultados[k][3] = IF resultados[k][2] = EXITO
                             THEN <<>>
                             ELSE destino[i].error
    /\ \A n \in 1..Len(consola) :
          /\ consola[n].tipo = "ERROR" =>
                /\ Len(consola[n].causa) <= LIMITE_ERROR
                /\ \E k \in 1..Len(resultados) :
                      /\ resultados[k][1] = consola[n].archivo
                      /\ resultados[k][2] = FALLO
                      /\ consola[n].causa =
                           SubSeq(resultados[k][3], 1, Len(consola[n].causa))
                      /\ \/ Len(consola[n].causa) = LIMITE_ERROR
                         \/ consola[n].causa = resultados[k][3]
          /\ consola[n].tipo = "fallo" =>
                /\ Len(consola[n].error) <= LIMITE_ERROR
                /\ \E k \in 1..Len(resultados) :
                      /\ resultados[k][1] = consola[n].archivo
                      /\ resultados[k][2] = FALLO
                      /\ consola[n].error =
                           SubSeq(resultados[k][3], 1, Len(consola[n].error))
                      /\ \/ Len(consola[n].error) = LIMITE_ERROR
                         \/ consola[n].error = resultados[k][3]

\* the report has printed a failure whose str(e) is longer than
\* LIMITE_ERROR, next to a success
C9_Witness ==
    /\ pc = "completado"
    /\ \E k \in 1..Len(resultados) :
          resultados[k][2] = FALLO /\ Len(resultados[k][3]) > LIMITE_ERROR
    /\ \E k \in 1..Len(resultados) : resultados[k][2] = EXITO
    /\ \E n \in 1..Len(consola) : consola[n].tipo = "fallo"

CuentaEstado(e) ==
    Cardinality({k \in 1..Len(resultados) : resultados[k][2] = e})

\* C10: the report is made when every item has its outcome; its success
\* count is the number of EXITO outcomes of resultados, its failure count
\* the number of FALLO outcomes, the two add up to the number of items, and
\* its failure list holds every FALLO outcome of resultados once, with its
\* name and detail, and nothing else.
C10_ResumenDeResultados ==
    reporte.hecho =>
        /\ Len(resultados) = NumItems
        /\ \A i \in 1..NumItems : Procesado(i)
        /\ Len(reporte.exitos) = CuentaEstado(EXITO)
        /\ Len(reporte.fallos) = CuentaEstado(FALLO)
        /\ Len(reporte.exitos) + Len(reporte.fallos) = NumItems
        /\ \A k \in 1..Len(resultados) :
              resultados[k][2] = FALLO =>
                 Cardinality({j \in 1..Len(reporte.fallos) :
                                 reporte.fallos[j] = resultados[k]}) = 1
        /\ \A j \in 1..Len(reporte.fallos) :
              /\ reporte.fallos[j][2] = FALLO
              /\ \E k \in 1..Len(resultados) :
                    resultados[k] = reporte.fallos[j]
        /\ \E n \in 1..Len(consola) :
              consola[n] = [tipo |-> "resumen",
                            exitos |-> CuentaEstado(EXITO),
                            fallos |-> CuentaEstado(FALLO)]

\* a report over three outcomes, two successes around one failure
C10_Witness ==
    /\ reporte.hecho
    /\ Len(resultados) = 3
    /\ resultados[1][2] = EXITO
    /\ resultados[2][2] = FALLO
    /\ resultados[3][2] = EXITO
    /\ Len(reporte.fallos) = 1

PoolTocado ==
    \/ \E p \in PIDs : proc[p].st # "no_nacido" \/ cargas[p] > 0
    \/ tareas # <<>>
    \/ \E i \in DOMAIN despachos : despachos[i] > 0
    \/ salida # <<>>

\* C11: a process of the pool exists, a model is loaded or an item is with
\* a worker only if CUDA is available, audios/ exists and discovery gave a
\* list that is not empty; without CUDA the run stops at its first message:
\* nothing discovered, no process, no model, no outcome, no report.
C11_SoloConCudaCarpetaYTrabajo ==
    /\ PoolTocado =>
          /\ cuda
          /\ audiosExiste
          /\ ~archivos_a_procesar.esNone
          /\ NumItems > 0
    /\ (~cuda /\ pc # "inicio") =>
          /\ pc = "sin_cuda"
          /\ archivos_a_procesar = None
          /\ ~PoolTocado
          /\ resultados = <<>>
          /\ progreso = 0
          /\ ~reporte.hecho
          /\ consola = <<[tipo |-> "sin_cuda"]>>
          /\ trans = transInicio

\* the run has stopped for lack of CUDA although audios/ held an audio
\* without transcription
C11_Witness ==
    /\ pc = "sin_cuda"
    /\ ~cuda
    /\ audiosExiste
    /\ \E f \in audios : EsAudio(f) /\ RutaSalidaTxt(f) \notin DOMAIN trans

\* C12 as claimed: the run that follows a completed run discovers exactly
\* the items whose outcome in that run was a FALLO, and none whose outcome
\* was an EXITO.
C12_ReanudaLosFallidos ==
    (corrida >= 2 /\ pc = "decidir" /\ anterior.fin = "completado") =>
        /\ ListaNombres = anterior.fallidos
        /\ ListaNombres \cap anterior.exitosos = {}

SalidaDe(p) == RutaSalidaTxt(NombreDe(p))

\* C13 as claimed: two different items of a run never derive the same
\* output name, and two workers never have the same output file open for
\* writing.
C13_SalidasDistintas ==
    /\ \A i, j \in 1..NumItems :
          i # j =>
             RutaSalidaTxt(Basename(archivos_a_procesar.lista[i]))
                # RutaSalidaTxt(Basename(archivos_a_procesar.lista[j]))
    /\ \A p, q \in PIDs :
          (p # q /\ proc[p].st = "escribiendo" /\ proc[q].st = "escribiendo")
             => SalidaDe(p) # SalidaDe(q)

\* C14, in every state: each file transcripciones/ held when the run
\* started is still there with the same content, and every other file of
\* transcripciones/ is the derived output of a discovered item.
C14_Estado ==
    /\ \A n \in DOMAIN transInicio :
          n \in DOMAIN trans /\ trans[n] = transInicio[n]
    /\ \A n \in DOMAIN trans \ DOMAIN transInicio :
          \E f \in ListaNombres : n = RutaSalidaTxt(f)

\* C14: a run writes only the derived outputs of the items it discovered,
\* leaves every file that was in transcripciones/ before it as it was, and
\* no step changes audios/.
C14_SoloEscribeLoDescubierto ==
    []C14_Estado /\ [][audios' = audios /\ audiosExiste' = audiosExiste]_vars

\* a run has written a new transcription next to an old file that is the
\* output of an audio still present, and so never discovered
C14_Witness ==
    /\ pc = "completado"
    /\ DOMAIN trans # DOMAIN transInicio
    /\ \E f \in audios :
          /\ EsAudio(f)
          /\ RutaSalidaTxt(f) \in DOMAIN transInicio
          /\ transInicio[RutaSalidaTxt(f)] = Viejo
          /\ trans[RutaSalidaTxt(f)] = Viejo

\* ------------------------------------------------- one run, fairly scheduled

\* the steps of main()
PasoMain ==
    \/ ComprobarCuda
    \/ crear_carpetas_necesarias
    \/ Descubrir
    \/ Decidir
    \/ CrearPool
    \/ Imap
    \/ Recibir
    \/ SalirPool
    \/ Reporte

\* the steps of the pool process p: its initializer, then its task loop
PasoTrabajador(p) ==
    \/ InicializarOk(p)
    \/ InicializarFalla(p)
    \/ Tomar(p)
    \/ TranscribirFalla(p)
    \/ AbrirOk(p)
    \/ AbrirFalla(p)
    \/ EscribirOk(p)
    \/ EscribirFalla(p)

NextUnaCorrida ==
    \/ PasoMain
    \/ \E p \in PIDs : PasoTrabajador(p)
    \/ \E p \in PIDs : Repoblar(p)

\* a start from which the run has work to do if audios/ holds an audio: CUDA
\* is there, both directories exist and nothing is transcribed yet
InitJusto ==
    /\ Init
    /\ cuda
    /\ audiosExiste
    /\ transExiste
    /\ DOMAIN trans = {}

\* One invocation of the script.  The operating system lets every process
\* that can take a step take one: main, each pool process (whose calls to
\* the model and to the file system return or raise), and the pool's
\* handler thread that replaces exited processes.
SpecJusto ==
    /\ InitJusto
    /\ [][NextUnaCorrida]_vars
    /\ WF_vars(PasoMain)
    /\ \A p \in PIDs : WF_vars(PasoTrabajador(p))
    /\ \A p \in PIDs : WF_vars(Repoblar(p))

Completo ==
    /\ pc = "completado"
    /\ Len(resultados) = NumItems
    /\ reporte.hecho
    /\ \A p \in PIDs : proc[p].st \notin Vivo

\* C15: once main is about to create the pool for a list that is not empty,
\* the run gets to the end of its report with one outcome per item and the
\* pool closed, unless an initializer failed.
C15_LaCorridaTermina ==
    (pc = "crear_pool") ~> (Completo \/ fallosInit > 0)

\* a run of three items has ended, no initializer having failed
C15_Witness ==
    /\ Completo
    /\ NumItems = 3
    /\ fallosInit = 0

EsLineaError(linea) == linea.tipo = "ERROR"
EsResultadoFallo(r) == r[2] = FALLO

\* C16: in every state the progress counter is the number of outcomes main
\* has received, never above the number of items and equal to it once the
\* loop has ended; and the [ERROR] lines printed so far are, in order,
\* those of the FALLO outcomes received so far: one per FALLO, printed with
\* its reception, none for an EXITO.
C16_ProgresoYErroresAlRecibir ==
    /\ progreso = Len(resultados)
    /\ progreso <= NumItems
    /\ pc \in {"reporte", "completado"} => progreso = NumItems
    /\ LET errores == SelectSeq(consola, EsLineaError)
           fallos == SelectSeq(resultados, EsResultadoFallo)
       IN  /\ Len(errores) = Len(fallos)
           /\ \A k \in 1..Len(errores) :
                 errores[k].archivo = fallos[k][1]

\* main has received one outcome, a FALLO, and printed its line, while the
\* next outcome waits in the result queue
C16_Witness ==
    /\ pc = "bucle"
    /\ progreso = 1
    /\ resultados[1][2] = FALLO
    /\ consola # <<>>
    /\ consola[Len(consola)].tipo = "ERROR"
    /\ salida # <<>>
    /\ salida[1].obj[2] = EXITO

\* C17 as claimed: in the step in which main receives an EXITO, the derived
\* output file of that item exists and holds the text transcribed for it.
C17_ExitoConSuTexto ==
    [][(/\ Len(resultados') = Len(resultados) + 1
        /\ resultados'[Len(resultados')][2] = EXITO)
       => LET nombre == resultados'[Len(resultados')][1]
          IN  /\ RutaSalidaTxt(nombre) \in DOMAIN trans
              /\ trans[RutaSalidaTxt(nombre)] = Texto(RutaAudio(nombre))]_vars

Creados == {p \in PIDs : proc[p].st # "no_nacido"}
Procesando == {p \in PIDs : proc[p].st \in Ocupado}

\* C18 as claimed: once the pool is constructed exactly
\* NUMERO_DE_TRABAJADORES_GPU processes have been created for the run, at
\* most that many items are being processed, and no item is with two
\* workers.
C18_PoolEstatico ==
    /\ pc \in {"imap", "bucle", "reporte", "completado"} =>
          Cardinality(Creados) = NUMERO_DE_TRABAJADORES_GPU
    /\ Cardinality(Procesando) <= NUMERO_DE_TRABAJADORES_GPU
    /\ \A p, q \in Procesando : p # q => proc[p].tarea # proc[q].tarea

\* ------------------------------------ one run, the directories changing

\* the input files somebody else can add or remove, and the output files
\* that can appear: those of the names the run can hold
ArchivosDeAudio == {n \in NombresAudios : EsAudio(n)}
ArchivosDeSalida == {RutaSalidaTxt(n) : n \in ArchivosDeAudio}

DuranteLaCorrida == pc \in {"decidir", "crear_pool", "imap", "bucle"}

\* somebody else puts an input file into audios/
AparecerAudio(n) ==
    /\ DuranteLaCorrida
    /\ cambios < MaxCambios
    /\ audiosExiste
    /\ n \notin audios
    /\ audios' = audios \cup {n}
    /\ cambios' = cambios + 1
    /\ UNCHANGED <<corrida, pc, audiosExiste, transExiste, trans, mainVars,
                   poolVars, anterior, transInicio, cuda>>

\* somebody else removes an input file of audios/; a transcription of it that
\* has not read the file yet can only fail, one that has read it goes on
DesaparecerAudio(n) ==
    /\ DuranteLaCorrida
    /\ cambios < MaxCambios
    /\ n \in audios
    /\ audios' = audios \ {n}
    /\ cambios' = cambios + 1
    /\ UNCHANGED <<corrida, pc, audiosExiste, transExiste, trans, mainVars,
                   poolVars, anterior, transInicio, cuda>>

\* somebody else puts a file into transcripciones/
AparecerSalida(n) ==
    /\ DuranteLaCorrida
    /\ cambios < MaxCambios
    /\ transExiste
    /\ n \notin DOMAIN trans
    /\ trans' = [m \in DOMAIN trans \cup {n} |->
                   IF m = n THEN Viejo ELSE trans[m]]
    /\ cambios' = cambios + 1
    /\ UNCHANGED <<corrida, pc, audiosExiste, audios, transExiste, mainVars,
                   poolVars, anterior, transInicio, cuda>>

NextEntorno ==
    \/ NextUnaCorrida
    \/ \E n \in ArchivosDeAudio : AparecerAudio(n)
    \/ \E n \in ArchivosDeAudio : DesaparecerAudio(n)
    \/ \E n \in ArchivosDeSalida : AparecerSalida(n)

SpecEntorno == InitJusto /\ [][NextEntorno]_vars

\* C19, in every state: no item is handed out twice, every task in a
\* worker is an item of the list, and when the loop has ended every item
\* of the list was handed out once and resultados names exactly the list.
C19_Estado ==
    /\ \A i \in DOMAIN despachos : i \in 1..NumItems /\ despachos[i] <= 1
    /\ \A p \in PIDs : proc[p].st \in Ocupado => proc[p].tarea \in 1..NumItems
    /\ pc \in {"reporte", "completado"} =>
          /\ DOMAIN despachos = 1..NumItems
          /\ \A i \in 1..NumItems : despachos[i] = 1
          /\ Nombres(resultados) = ListaNombres

\* C19: the list discovery returned is what the run dispatches, and after
\* discovery no step, of the script or of anybody changing the directories,
\* changes it.
C19_ListaFija ==
    /\ []C19_Estado
    /\ [][pc # "descubrir" => archivos_a_procesar' = archivos_a_procesar]_vars

\* a run has ended with an outcome for an item whose audio was removed
\* from audios/ after discovery
C19_Witness ==
    /\ pc = "completado"
    /\ cambios > 0
    /\ \E f \in ListaNombres : f \notin audios

====
